---- MODULE Spec2Model ----
(***************************************************************************)
(* Model of the persistent-process relay (src/unnamed/part_000): one       *)
(* long-lived child process, a queue of pending callers matched to the     *)
(* child's newline-delimited JSON output by id, a 30 s timeout per         *)
(* request and a restart 1 s after the child's 'close' event.              *)
(*                                                                         *)
(* Node runs every handler to completion on one thread, so each handler    *)
(* is one atomic action.  A stream is a sequence of tokens: a token is a   *)
(* run of ASCII bytes that the modelled streams never cut (for instance    *)
(* the JSON prefix {"id":1 ); the newline, the blank and the two bytes of  *)
(* a two-byte UTF-8 character are tokens of their own.                     *)
(***************************************************************************)
EXTENDS Integers, Sequences, FiniteSets

VARIABLES
    listening,      \* the app.listen callback has run
    mcpProcess,     \* the handle: 0 is null, n names the child last spawned
    procs,          \* the children that have not emitted 'close' yet
    buffer,         \* per child, the `buffer` of its startMCPProcess call: kept
                    \* while a handler of the child can run or the handle holds it
    isReady,
    requestQueue,   \* sequence of [id, req]: req names the caller's resolve/reject pair
    timeouts,       \* armed 30 s timers, in arming order: [id, req]
    restartTimers,  \* armed 1 s restart timers
    stdinWrites,    \* lines written to a child's input stream
    callers,        \* per sendToMCP call: what happened to its promise
    rec,            \* observation of a child's stdout: chunks joined, lines dispatched;
                    \* and of its stderr: chunks joined
    last,           \* the handler that ran last and, for a 'data' event, its chunk
    http            \* per HTTP request, in arrival order: the answer sent, if any

vars == <<listening, mcpProcess, procs, buffer, isReady, requestQueue,
          timeouts, restartTimers, stdinWrites, callers, rec, last, http>>

-----------------------------------------------------------------------------
(* Bounds of the exploration *)

MaxReq == 2
MaxStream == 4
MaxChunk == 2
MaxPending == 3

-----------------------------------------------------------------------------
(* Values *)

NumberId(n) == [type |-> "number", val |-> n]
StringId(n) == [type |-> "string", val |-> n]
Undefined == [type |-> "undefined", val |-> 0]

\* the ids callers choose: 1 and "1"
Ids == {NumberId(1), StringId(1)}

\* the ids a child answers with: those, and 2, which no caller chose
ResponseIds == Ids \cup {NumberId(2)}

NL == "\n"
SP == " "
Whitespace == {NL, SP}

\* the two bytes of a two-byte UTF-8 character, the character they encode, and
\* the replacement character the decoder emits for a byte sequence that is none
Lead == "0xC3"
Cont == "0xA9"
TwoByteChar == "U+00E9"
Replacement == "U+FFFD"

\* JSON.stringify of {id: ...} up to, not including, the closing brace
JSONOpen(id) ==
    IF id.type = "string" THEN "{\"id\":\"1\""
    ELSE IF id.val = 1 THEN "{\"id\":1" ELSE "{\"id\":2"

ErrNotReady == "MCP not ready"
ErrTimeout == "Request timeout"
ErrDied == "MCP process died"
ErrWrite == "write error"

-----------------------------------------------------------------------------
(* String operations, as JavaScript computes them *)

RECURSIVE ToString(_)
\* Buffer.prototype.toString(): UTF-8 decoding of one chunk, on its own
ToString(bytes) ==
    IF bytes = <<>> THEN <<>>
    ELSE IF Head(bytes) = Lead
         THEN IF Len(bytes) >= 2 /\ bytes[2] = Cont
              THEN <<TwoByteChar>> \o ToString(Tail(Tail(bytes)))
              ELSE <<Replacement>> \o ToString(Tail(bytes))
    ELSE IF Head(bytes) = Cont THEN <<Replacement>> \o ToString(Tail(bytes))
    ELSE <<Head(bytes)>> \o ToString(Tail(bytes))

RECURSIVE Split(_)
\* String.prototype.split('\n'): the segments between newlines, at least one
Split(s) ==
    IF \A i \in 1..Len(s) : s[i] # NL THEN <<s>>
    ELSE LET i == CHOOSE k \in 1..Len(s) :
                      s[k] = NL /\ \A j \in 1..(k - 1) : s[j] # NL
         IN <<SubSeq(s, 1, i - 1)>> \o Split(SubSeq(s, i + 1, Len(s)))

\* mutant of PopOrEmpty: the unterminated tail is thrown away
PopDropsTail(lines) == <<>>

\* Array.prototype.pop() || '' on the result of split
PopOrEmpty(lines) == IF Len(lines) = 0 THEN <<>> ELSE lines[Len(lines)]

\* the array after pop()
AfterPop(lines) == IF Len(lines) = 0 THEN <<>> ELSE SubSeq(lines, 1, Len(lines) - 1)

RECURSIVE TrimStart(_)
TrimStart(s) ==
    IF s # <<>> /\ Head(s) \in Whitespace THEN TrimStart(Tail(s)) ELSE s

RECURSIVE TrimEnd(_)
TrimEnd(s) ==
    IF s # <<>> /\ s[Len(s)] \in Whitespace THEN TrimEnd(SubSeq(s, 1, Len(s) - 1)) ELSE s

\* String.prototype.trim()
Trim(s) == TrimEnd(TrimStart(s))

\* mutant of Includes: every diagnostic message counts as the marker
IncludesAlways(s, m) == TRUE

\* String.prototype.includes(m)
Includes(s, m) ==
    \E i \in 0..(Len(s) - Len(m)) : SubSeq(s, i + 1, i + Len(m)) = m

\* a token that is no JSON whitespace
NotWhitespace(ch) == ch \notin Whitespace

\* a further member of a JSON object, as a child may add to its response
SuccessMember == ",\"success\":true"

\* JSON.parse(line) followed by the read of .id: ok is FALSE when it throws;
\* value is the parsed object, with every member of the text (the empty object
\* is <<>>).  Whitespace around and between the tokens of the text is
\* insignificant, and a member name may be repeated: the last one gives the
\* value
JSONParse(line) ==
    LET t == SelectSeq(line, NotWhitespace)
        n == Len(t)
    IN
    IF /\ n >= 2
       /\ t[n] = "}"
       /\ \E i \in ResponseIds : t[1] = JSONOpen(i)
       /\ \A k \in 2..(n - 1) : t[k] = SuccessMember
    THEN LET id == CHOOSE i \in ResponseIds : t[1] = JSONOpen(i)
         IN [ok |-> TRUE, id |-> id,
             value |-> IF n = 2 THEN [id |-> id]
                                ELSE [id |-> id, success |-> TRUE]]
    ELSE IF t = <<"{", "}">> THEN [ok |-> TRUE, id |-> Undefined, value |-> <<>>]
    ELSE [ok |-> FALSE, id |-> Undefined, value |-> <<>>]

-----------------------------------------------------------------------------
(* The queue and the callers' continuations *)

\* mutant of FindIndex: ids compared with ==, so that 1 equals "1"
FindIndexLoose(q, id) ==
    IF \E i \in 1..Len(q) : q[i].id.val = id.val
    THEN CHOOSE i \in 1..Len(q) :
             q[i].id.val = id.val /\ \A j \in 1..(i - 1) : q[j].id.val # id.val
    ELSE 0

\* mutant of FindIndex: responses are paired with requests in order of arrival
FindIndexFirst(q, id) == IF q = <<>> THEN 0 ELSE 1

\* mutant of FindIndex: the newest entry of the id is found (findLastIndex)
FindLastIndex(q, id) ==
    IF \E i \in 1..Len(q) : q[i].id = id
    THEN CHOOSE i \in 1..Len(q) : q[i].id = id /\ \A j \in (i + 1)..Len(q) : q[j].id # id
    ELSE 0

\* mutant of FindIndex: -1 is not told from an index, and splice(-1, 1) removes
\* the last entry
FindIndexOrLast(q, id) ==
    IF \E i \in 1..Len(q) : q[i].id = id
    THEN CHOOSE i \in 1..Len(q) : q[i].id = id /\ \A j \in 1..(i - 1) : q[j].id # id
    ELSE Len(q)

\* requestQueue.findIndex(req => req.id === id): 0 stands for -1
FindIndex(q, id) ==
    IF \E i \in 1..Len(q) : q[i].id = id
    THEN CHOOSE i \in 1..Len(q) : q[i].id = id /\ \A j \in 1..(i - 1) : q[j].id # id
    ELSE 0

\* requestQueue.splice(index, 1)
Splice(q, i) == SubSeq(q, 1, i - 1) \o SubSeq(q, i + 1, Len(q))

\* a call of caller r's resolve with a parsed response: the promise keeps its
\* first settlement (value: the id of the response it is resolved with;
\* response: that response, whole)
Resolve(c, r, response) ==
    [c EXCEPT ![r] = [@ EXCEPT !.resolveCalls = @ + 1,
                               !.outcome = IF c[r].outcome = "pending" THEN "resolved" ELSE @,
                               !.value = IF c[r].outcome = "pending" THEN response.id ELSE @,
                               !.response = IF c[r].outcome = "pending"
                                            THEN response.value ELSE @]]

\* a call of caller r's reject
Reject(c, r, msg) ==
    [c EXCEPT ![r] = [@ EXCEPT !.rejectCalls = @ + 1,
                               !.outcome = IF c[r].outcome = "pending" THEN msg ELSE @]]

\* mutant of RejectAll: only the oldest pending caller is rejected
RejectFirstOnly(c, q, msg) ==
    IF q = <<>> THEN c ELSE Reject(c, Head(q).req, msg)

RECURSIVE RejectAll(_, _, _)
\* requestQueue.forEach(req => req.reject(...))
RejectAll(c, q, msg) ==
    IF q = <<>> THEN c ELSE RejectAll(Reject(c, Head(q).req, msg), Tail(q), msg)

RECURSIVE OnLinesStopAtJunk(_, _, _)
\* mutant of OnLines: the try encloses the loop, so that the first line that
\* does not parse ends it
OnLinesStopAtJunk(lines, q, c) ==
    IF lines = <<>> THEN [queue |-> q, callers |-> c]
    ELSE LET line == Head(lines)
             response == JSONParse(line)
             index == FindIndex(q, response.id)
         IN IF Trim(line) = <<>> THEN OnLinesStopAtJunk(Tail(lines), q, c)
            ELSE IF ~response.ok THEN [queue |-> q, callers |-> c]
            ELSE IF index # 0
                 THEN OnLinesStopAtJunk(Tail(lines), Splice(q, index),
                                        Resolve(c, q[index].req, response))
                 ELSE OnLinesStopAtJunk(Tail(lines), q, c)

RECURSIVE OnLines(_, _, _)
\* the for loop of the stdout handler over the complete lines
OnLines(lines, q, c) ==
    IF lines = <<>> THEN [queue |-> q, callers |-> c]
    ELSE LET line == Head(lines)
             response == JSONParse(line)
             index == FindIndex(q, response.id)
         IN IF Trim(line) = <<>> THEN OnLines(Tail(lines), q, c)
            ELSE IF ~response.ok THEN OnLines(Tail(lines), q, c)
            ELSE IF index # 0
                 THEN OnLines(Tail(lines), Splice(q, index),
                              Resolve(c, q[index].req, response))
                 ELSE OnLines(Tail(lines), q, c)

-----------------------------------------------------------------------------
(* The answers of the HTTP endpoints *)

StatusOK == 200
StatusFailed == 500
StatusNotReady == 503

ErrorNotReady == "MCP not ready"
MessageNotReady == "Please wait for MCP to initialize"
ErrorFailed == "MCP request failed"

\* mutant of ErrorBody: the message is left out
ErrorBodyNoMessage(error, message) == [error |-> error]

\* the JSON body of an error answer
ErrorBody(error, message) == [error |-> error, message |-> message]

\* res.json(response): the body is the response the caller was resolved with,
\* every member of it, as the child sent it
ResponseBody(response) == response

\* a POST /mcp that awaits caller r's promise: nothing is sent yet (status 0)
Awaiting(r) == [kind |-> "post", req |-> r, status |-> 0, body |-> <<>>]

\* an answer sent
Answered(kind, r, status, body) ==
    [kind |-> kind, req |-> r, status |-> status, body |-> body]

\* the rest of a POST /mcp handler after its await, run when the promise of its
\* caller settles: res.json(response), or the catch block's status 500
AfterAwait(h, c) ==
    IF h.status # 0 \/ c[h.req].outcome = "pending" THEN h
    ELSE IF c[h.req].outcome = "resolved"
         THEN Answered("post", h.req, StatusOK, ResponseBody(c[h.req].response))
         ELSE Answered("post", h.req, StatusFailed,
                       ErrorBody(ErrorFailed, c[h.req].outcome))

\* every awaiting handler whose promise has settled in c runs to its end (the
\* continuations are microtasks: they run before the next event is handled)
Continue(hs, c) ==
    IF hs = <<>> THEN <<>> ELSE [i \in 1..Len(hs) |-> AfterAwait(hs[i], c)]

-----------------------------------------------------------------------------
(* Inputs *)

RECURSIVE SeqsUpTo(_, _)
SeqsUpTo(S, n) ==
    IF n = 0 THEN {<<>>}
    ELSE LET shorter == SeqsUpTo(S, n - 1)
         IN shorter \cup {Append(s, x) : s \in {t \in shorter : Len(t) = n - 1}, x \in S}

ResponseLine(id) == <<JSONOpen(id), "}", NL>>

\* what a child writes to its stdout in one 'data' event
StdoutChunks ==
    {ResponseLine(i) : i \in ResponseIds}
    \cup {<<JSONOpen(NumberId(1))>>, <<"}", NL>>}
    \cup {<<"x", NL>>, <<SP, NL>>}
    \cup {ResponseLine(NumberId(1)) \o ResponseLine(StringId(1)),
          <<"x", NL>> \o ResponseLine(StringId(1)),
          <<SP, NL>> \o ResponseLine(NumberId(1)),
          <<JSONOpen(NumberId(1)), SP, "}", NL>>}

\* a response that carries a member besides its id
FlaggedResponseLine(id) == <<JSONOpen(id), SuccessMember, "}", NL>>

\* a response whose text repeats that member
RepeatedMemberLine(id) == <<JSONOpen(id), SuccessMember, SuccessMember, "}", NL>>

\* what the child behind the HTTP endpoints writes: the same, and responses
\* with a further member, once or repeated
HttpStdoutChunks ==
    StdoutChunks \cup {FlaggedResponseLine(i) : i \in Ids}
                 \cup {RepeatedMemberLine(NumberId(1))}

\* the children of Spec begin no new line while an unfinished one is buffered
\* (FramerSpec lifts this: it cuts its streams anywhere)
WritesWholeLines(buf, chunk) == buf = <<>> \/ chunk[Len(chunk)] = NL

\* the characters of the framer's exhaustive exploration
FramerChars == {NL, "}", JSONOpen(NumberId(1)), Lead, Cont}
FramerChunks == SeqsUpTo(FramerChars, MaxChunk) \ {<<>>}

Marker1 == <<"Server", SP, "Running">>
Marker2 == <<"Connected">>

\* what a child writes to its stderr in one 'data' event
StderrChunks ==
    {Marker1, <<"Server", SP>>, <<"Running">>, <<"Connected", NL>>, <<"x", NL>>}

\* the characters of the exhaustive exploration of the stderr handler
MarkerChars == {"Server", SP, "Running", "Connected", NL}
MarkerChunks == SeqsUpTo(MarkerChars, MaxChunk) \ {<<>>}

\* the record kept in `last`: the handler and, for an event of a child, the
\* child and the chunk
Event(op, proc, chunk) == [op |-> op, proc |-> proc, chunk |-> chunk]

-----------------------------------------------------------------------------
(* Initial state: the module is loaded, the server is not listening yet *)

InitWith(observe) ==
    /\ listening = FALSE
    /\ mcpProcess = 0
    /\ procs = {}
    /\ buffer = <<>>
    /\ isReady = FALSE
    /\ requestQueue = <<>>
    /\ timeouts = <<>>
    /\ restartTimers = 0
    /\ stdinWrites = 0
    /\ callers = <<>>
    /\ rec = [on |-> observe, proc |-> 0, bytes |-> <<>>, lines |-> <<>>, aligned |-> TRUE,
              err |-> <<>>]
    /\ last = Event("load", 0, <<>>)
    /\ http = <<>>

Init == InitWith(FALSE)

-----------------------------------------------------------------------------
(* Handlers *)

\* the name of the next child: the least number no live child bears
NewProc == CHOOSE n \in 1..(Cardinality(procs) + 1) : n \notin procs

\* mutant of InitialBuffer: `buffer` is declared outside startMCPProcess, so
\* that the new child's handler goes on with what the last one left
InheritedBuffer(left) == left

\* let buffer = '' in startMCPProcess; left: what the stdout handler of the
\* child that the handle held before has left in its own buffer
InitialBuffer(left) == <<>>

\* startMCPProcess(): spawn, a fresh `buffer`, handlers on the new child; the
\* child that the handle held is dropped with its closure
StartMCPProcess ==
    /\ mcpProcess' = NewProc
    /\ procs' = procs \cup {NewProc}
    /\ buffer' = [p \in procs \cup {NewProc} |->
                     IF p \in procs THEN buffer[p]
                     ELSE InitialBuffer(IF mcpProcess \in DOMAIN buffer
                                        THEN buffer[mcpProcess] ELSE <<>>)]
    /\ rec' = [rec EXCEPT !.proc = NewProc, !.bytes = <<>>, !.lines = <<>>,
                           !.aligned = TRUE, !.err = <<>>]

\* the app.listen callback
Listen ==
    /\ ~listening
    /\ listening' = TRUE
    /\ StartMCPProcess
    /\ last' = Event("listen", 0, <<>>)
    /\ UNCHANGED <<isReady, requestQueue, timeouts, restartTimers, stdinWrites, callers,
                   http>>

\* the restart timer armed by the close handler fires
RestartFire ==
    /\ restartTimers > 0
    /\ restartTimers' = restartTimers - 1
    /\ StartMCPProcess
    /\ last' = Event("restart", 0, <<>>)
    /\ UNCHANGED <<listening, isReady, requestQueue, timeouts, stdinWrites, callers,
                   http>>

\* the chunk begins inside the two-byte character the bytes before it began
CutsCharacter(before, chunk) ==
    /\ before # <<>> /\ before[Len(before)] = Lead
    /\ chunk # <<>> /\ Head(chunk) = Cont

\* mcpProcess.stdout.on('data')
StdoutData(p, chunk) ==
    /\ p \in procs
    /\ LET joined == buffer[p] \o ToString(chunk)
           lines == Split(joined)
           rest == PopOrEmpty(lines)
           complete == AfterPop(lines)
           after == OnLines(complete, requestQueue, callers)
       IN /\ buffer' = [buffer EXCEPT ![p] = rest]
          /\ requestQueue' = after.queue
          /\ callers' = after.callers
          /\ http' = Continue(http, after.callers)
          /\ rec' = IF rec.on /\ rec.proc = p
                    THEN [rec EXCEPT !.bytes = @ \o chunk, !.lines = @ \o complete,
                                     !.aligned = @ /\ ~CutsCharacter(rec.bytes, chunk)]
                    ELSE rec
    /\ last' = Event("stdout", p, chunk)
    /\ UNCHANGED <<listening, mcpProcess, procs, isReady, timeouts,
                   restartTimers, stdinWrites>>

\* mcpProcess.stderr.on('data')
StderrData(p, chunk) ==
    /\ p \in procs
    /\ LET msg == Trim(ToString(chunk))
       IN isReady' = IF Includes(msg, Marker1) \/ Includes(msg, Marker2)
                     THEN TRUE ELSE isReady
    /\ rec' = IF rec.on /\ rec.proc = p THEN [rec EXCEPT !.err = @ \o chunk] ELSE rec
    /\ last' = Event("stderr", p, chunk)
    /\ UNCHANGED <<listening, mcpProcess, procs, buffer, requestQueue,
                   timeouts, restartTimers, stdinWrites, callers, http>>

\* mutant of ArmRestart: a second handler schedules a restart of its own
ArmRestartTwice(n) == n + 2

\* setTimeout(startMCPProcess, 1000) in the close handler: n timers were armed
ArmRestart(n) == n + 1

\* mcpProcess.on('close'): the child is gone and its streams are closed
ProcessClose(p) ==
    /\ p \in procs
    /\ isReady' = FALSE
    /\ callers' = RejectAll(callers, requestQueue, ErrDied)
    /\ http' = Continue(http, RejectAll(callers, requestQueue, ErrDied))
    /\ requestQueue' = <<>>
    /\ restartTimers' = ArmRestart(restartTimers)
    /\ procs' = procs \ {p}
    /\ buffer' = buffer
    /\ last' = Event("close", p, <<>>)
    /\ UNCHANGED <<listening, mcpProcess, timeouts, stdinWrites, rec>>

\* mutant of ProcessError: the error handler schedules a restart as well
ProcessErrorRestarts(p) ==
    /\ p \in procs
    /\ restartTimers' = restartTimers + 1
    /\ last' = Event("error", p, <<>>)
    /\ UNCHANGED <<listening, mcpProcess, procs, buffer, isReady, requestQueue,
                   timeouts, stdinWrites, callers, rec, http>>

\* mcpProcess.on('error'): logs only
ProcessError(p) ==
    /\ p \in procs
    /\ last' = Event("error", p, <<>>)
    /\ UNCHANGED <<listening, mcpProcess, procs, buffer, isReady, requestQueue,
                   timeouts, restartTimers, stdinWrites, callers, rec, http>>

\* mutant of NotReady: the readiness flag is not consulted
NotReadyHandleOnly(handle, ready) == handle = 0

\* the guard of sendToMCP: !mcpProcess || !isReady
NotReady(handle, ready) == handle = 0 \/ ~ready

\* sendToMCP(request) with request.id = id; throws: stdin.write throws.  The
\* caller's continuation (the rest of the HTTP handler, if one awaits) is the
\* caller's business: see PostMcp
SendToMCP(id, throws) ==
    /\ LET r == Len(callers) + 1
           c0 == Append(callers, [id |-> id, fresh |-> FindIndex(requestQueue, id) = 0,
                                  resolveCalls |-> 0, rejectCalls |-> 0,
                                  outcome |-> "pending", value |-> Undefined,
                                  response |-> <<>>])
           pushed == Append(requestQueue, [id |-> id, req |-> r])
           index == FindIndex(pushed, id)
       IN /\ last' = Event("sendToMCP", 0, <<>>)
          /\ IF NotReady(mcpProcess, isReady)
             THEN /\ callers' = Reject(c0, r, ErrNotReady)
                  /\ UNCHANGED <<requestQueue, timeouts, stdinWrites>>
             ELSE /\ timeouts' = Append(timeouts, [id |-> id, req |-> r])
                  /\ IF throws
                     THEN /\ requestQueue' = IF index # 0 THEN Splice(pushed, index)
                                             ELSE pushed
                          /\ callers' = Reject(c0, r, ErrWrite)
                          /\ UNCHANGED stdinWrites
                     ELSE /\ requestQueue' = pushed
                          /\ callers' = c0
                          /\ stdinWrites' = stdinWrites + 1
    /\ UNCHANGED <<listening, mcpProcess, procs, buffer, isReady,
                   restartTimers, rec>>

\* the oldest armed 30 s timer fires (equal delays fire in arming order)
TimeoutFire ==
    /\ timeouts # <<>>
    /\ LET t == Head(timeouts)
           index == FindIndex(requestQueue, t.id)
       IN /\ timeouts' = Tail(timeouts)
          /\ IF index # 0
             THEN /\ requestQueue' = Splice(requestQueue, index)
                  /\ callers' = Reject(callers, t.req, ErrTimeout)
                  /\ http' = Continue(http, Reject(callers, t.req, ErrTimeout))
             ELSE UNCHANGED <<requestQueue, callers, http>>
          /\ last' = Event("timeout", 0, <<>>)
    /\ UNCHANGED <<listening, mcpProcess, procs, buffer, isReady,
                   restartTimers, stdinWrites, rec>>

\* mutant of PostNotReady: the endpoint leaves the check to sendToMCP
PostNeverNotReady(ready) == FALSE

\* the guard of POST /mcp: !isReady
PostNotReady(ready) == ~ready

\* app.post('/mcp') with req.body.id = id, up to the end of the handler or, when
\* the promise is still pending, up to its await
PostMcp(id, throws) ==
    IF PostNotReady(isReady)
    THEN /\ http' = Append(http, Answered("post", 0, StatusNotReady,
                                          ErrorBody(ErrorNotReady, MessageNotReady)))
         /\ last' = Event("post", 0, <<>>)
         /\ UNCHANGED <<listening, mcpProcess, procs, buffer, isReady, requestQueue,
                        timeouts, restartTimers, stdinWrites, callers, rec>>
    ELSE /\ SendToMCP(id, throws)
         /\ http' = Continue(Append(http, Awaiting(Len(callers) + 1)), callers')

\* app.get('/health')
Health ==
    /\ http' = Append(http, Answered("health", 0, StatusOK,
                          [status |-> IF isReady THEN "ready" ELSE "initializing",
                           timestamp |-> "now",
                           mcpPath |-> "index.js",
                           mode |-> "Persistent Process",
                           queueSize |-> Len(requestQueue)]))
    /\ last' = Event("health", 0, <<>>)
    /\ UNCHANGED <<listening, mcpProcess, procs, buffer, isReady, requestQueue,
                   timeouts, restartTimers, stdinWrites, callers, rec>>

-----------------------------------------------------------------------------
(* Specifications *)

Next ==
    \/ Listen
    \/ RestartFire
    \/ \E p \in procs, chunk \in StdoutChunks :
          /\ WritesWholeLines(buffer[p], chunk)
          /\ StdoutData(p, chunk)
    \/ \E p \in procs, chunk \in StderrChunks : StderrData(p, chunk)
    \/ \E p \in procs : ProcessClose(p)
    \/ \E p \in procs : ProcessError(p)
    \/ \E id \in Ids, throws \in BOOLEAN :
          Len(callers) < MaxReq /\ SendToMCP(id, throws) /\ UNCHANGED http
    \/ TimeoutFire

Spec == Init /\ [][Next]_vars

\* Node fires every armed timer
FairSpec == Spec /\ WF_vars(TimeoutFire) /\ WF_vars(RestartFire)

\* the relay when no write to the child throws
WritesSucceedNext ==
    \/ Listen
    \/ RestartFire
    \/ \E p \in procs, chunk \in StdoutChunks :
          /\ WritesWholeLines(buffer[p], chunk)
          /\ StdoutData(p, chunk)
    \/ \E p \in procs, chunk \in StderrChunks : StderrData(p, chunk)
    \/ \E p \in procs : ProcessClose(p)
    \/ \E p \in procs : ProcessError(p)
    \/ \E id \in Ids :
          Len(callers) < MaxReq /\ SendToMCP(id, FALSE) /\ UNCHANGED http
    \/ TimeoutFire

WritesSucceedSpec == Init /\ [][WritesSucceedNext]_vars

FairWritesSucceedSpec ==
    WritesSucceedSpec /\ WF_vars(TimeoutFire) /\ WF_vars(RestartFire)

\* the relay while its child neither answers nor exits
QuietNext ==
    \/ Listen
    \/ \E p \in procs, chunk \in StderrChunks : StderrData(p, chunk)
    \/ \E id \in Ids, throws \in BOOLEAN :
          Len(callers) < MaxReq /\ SendToMCP(id, throws) /\ UNCHANGED http
    \/ TimeoutFire

QuietSpec == Init /\ [][QuietNext]_vars

\* the framer alone, fed every chunking of every short stream, observed
FramerInit == InitWith(TRUE)

FramerNext ==
    \/ Listen
    \/ \E p \in procs, chunk \in FramerChunks :
          /\ Len(rec.bytes) + Len(chunk) <= MaxStream
          /\ StdoutData(p, chunk)

FramerSpec == FramerInit /\ [][FramerNext]_vars

\* the framer over the life of several children: every chunking of every short
\* stream of each, any of them closing at any point, observed
RestartingFramerNext ==
    \/ Listen
    \/ \E p \in procs, chunk \in FramerChunks :
          /\ Len(rec.bytes) + Len(chunk) <= MaxStream
          /\ StdoutData(p, chunk)
    \/ \E p \in procs : ProcessClose(p)
    \/ RestartFire

RestartingFramerSpec == FramerInit /\ [][RestartingFramerNext]_vars

\* the correlator: a ready relay whose child answers every id, in any order,
\* before any timer fires
CorrelatorNext ==
    \/ Listen
    \/ \E p \in procs : StderrData(p, Marker1)
    \/ \E id \in ResponseIds :
          Len(callers) < MaxPending /\ SendToMCP(id, FALSE) /\ UNCHANGED http
    \/ \E p \in procs, id \in ResponseIds : StdoutData(p, ResponseLine(id))

CorrelatorSpec == Init /\ [][CorrelatorNext]_vars

\* the stderr handler alone, fed every chunking of every short stream, observed
MarkerNext ==
    \/ Listen
    \/ \E p \in procs, chunk \in MarkerChunks :
          /\ Len(rec.err) + Len(chunk) <= MaxStream
          /\ StderrData(p, chunk)

MarkerSpec == FramerInit /\ [][MarkerNext]_vars

\* the relay behind its HTTP endpoints: sendToMCP is called by POST /mcp only
HttpNext ==
    \/ Listen
    \/ RestartFire
    \/ \E p \in procs, chunk \in HttpStdoutChunks :
          /\ WritesWholeLines(buffer[p], chunk)
          /\ StdoutData(p, chunk)
    \/ \E p \in procs, chunk \in StderrChunks : StderrData(p, chunk)
    \/ \E p \in procs : ProcessClose(p)
    \/ \E id \in Ids, throws \in BOOLEAN :
          listening /\ Len(http) < MaxReq /\ PostMcp(id, throws)
    \/ listening /\ Len(http) < MaxReq /\ Health
    \/ TimeoutFire

HttpSpec == Init /\ [][HttpNext]_vars

-----------------------------------------------------------------------------
(* Shorthands of the properties *)

Callers == 1..Len(callers)

\* caller r's request was accepted: sendToMCP did not reject it as not ready
Accepted(r) == callers[r].outcome # ErrNotReady

Settled(r) == callers[r].outcome # "pending"

Calls(r) == callers[r].resolveCalls + callers[r].rejectCalls

InQueue(r) == \E i \in 1..Len(requestQueue) : requestQueue[i].req = r

QueueIds == {requestQueue[i].id : i \in 1..Len(requestQueue)}

-----------------------------------------------------------------------------
(* C1 *)

\* C1: every request accepted while the relay is ready, with an id that no pending
\* entry bore when it was submitted, is eventually settled (resolved or rejected),
\* under fair firing of the timers.
C1_AcceptedRequestIsSettled ==
    \A r \in 1..MaxReq :
        [](r \in Callers /\ Accepted(r) /\ callers[r].fresh
              => <>(r \in Callers /\ Settled(r)))

-----------------------------------------------------------------------------
(* C2 *)

\* C2: for every submitted request, resolve and reject are invoked at most once
\* in total.
C2_AtMostOneContinuationCall == \A r \in Callers : Calls(r) <= 1

-----------------------------------------------------------------------------
(* C3 *)

\* at a step of sendToMCP, the caller it created
NewCaller == Len(callers) + 1

\* C3: a call of sendToMCP while the relay is not ready (no process handle, or
\* isReady false) rejects the caller at once with 'MCP not ready', leaves
\* requestQueue unchanged, writes nothing to the child and arms no timeout.
C3_NotReadyRejectsAtOnce ==
    [][(last'.op = "sendToMCP" /\ (mcpProcess = 0 \/ ~isReady))
          => /\ Len(callers') = NewCaller
             /\ callers'[NewCaller].outcome = ErrNotReady
             /\ callers'[NewCaller].rejectCalls = 1
             /\ callers'[NewCaller].resolveCalls = 0
             /\ \A r \in Callers : callers'[r] = callers[r]
             /\ requestQueue' = requestQueue
             /\ stdinWrites' = stdinWrites
             /\ timeouts' = timeouts]_vars

\* a call was rejected as not ready although the handle is set; an earlier
\* request's timer is still armed and stays the only one
C3_Witness ==
    /\ last.op = "sendToMCP"
    /\ mcpProcess # 0 /\ ~isReady
    /\ callers # <<>> /\ callers[Len(callers)].outcome = ErrNotReady
    /\ Len(timeouts) = 1 /\ timeouts[1].req # Len(callers)
    /\ stdinWrites = 1

-----------------------------------------------------------------------------
(* C4 *)

\* C4: the close handler, with N >= 0 requests pending, calls reject with
\* 'MCP process died' for each of them, empties requestQueue and leaves the relay
\* not ready, in one step.
C4_CloseFailsAllPending ==
    [][last'.op = "close"
          => /\ \A i \in 1..Len(requestQueue) :
                   LET r == requestQueue[i].req IN
                   /\ callers'[r].rejectCalls = callers[r].rejectCalls + 1
                   /\ callers[r].outcome = "pending" => callers'[r].outcome = ErrDied
             /\ requestQueue' = <<>>
             /\ ~isReady']_vars

\* a close has just failed two pending requests
C4_Witness ==
    /\ last.op = "close"
    /\ Len(callers) >= 2
    /\ \A r \in 1..2 : callers[r].outcome = ErrDied /\ callers[r].rejectCalls = 1
    /\ requestQueue = <<>>
    /\ ~isReady

-----------------------------------------------------------------------------
(* C5 *)

\* C5: every observed termination arms exactly one restart timer, which fires
\* (timers are fair) and spawns one child; a child is spawned only by the listen
\* callback, once, or by a restart timer, which is consumed by it.  After startup
\* the live children and the armed restarts therefore always number one.
C5_OneRestartPerTermination ==
    /\ [][/\ last'.op = "close" => restartTimers' = restartTimers + 1
          /\ last'.op # "close" => restartTimers' <= restartTimers
          /\ ~(procs' \subseteq procs)
                => \/ last'.op = "listen" /\ ~listening
                   \/ last'.op = "restart" /\ restartTimers > 0
                                           /\ restartTimers' = restartTimers - 1]_vars
    /\ [](listening => Cardinality(procs) + restartTimers = 1)
    /\ [](restartTimers > 0 => <>(last.op = "restart" /\ restartTimers = 0))

\* the child spawned by a restart is live, after a close that failed a request
C5_Witness ==
    /\ last.op = "restart"
    /\ procs # {} /\ restartTimers = 0
    /\ \E r \in Callers : callers[r].outcome = ErrDied

-----------------------------------------------------------------------------
(* C6 *)

\* at a step of TimeoutFire, the request whose timer fires
Expiring == Head(timeouts).req

\* C6: when the timeout fires of a request that was accepted with an id unique
\* among the pending entries, and that no response, write failure or process exit
\* has settled, the caller is rejected with 'Request timeout' and exactly its own
\* entry leaves the queue.  (Checked where the child neither answers nor exits;
\* no write has failed since the request was submitted.)
C6_TimeoutRejectsItsRequest ==
    [][(last'.op = "timeout" /\ timeouts # <<>> /\ timeouts' = Tail(timeouts)
            /\ callers[Expiring].fresh /\ callers[Expiring].outcome = "pending"
            /\ \A r \in Callers : r > Expiring => callers[r].outcome # ErrWrite)
          => /\ callers'[Expiring].outcome = ErrTimeout
             /\ InQueue(Expiring)
             /\ \E i \in 1..Len(requestQueue) :
                    /\ requestQueue[i].req = Expiring
                    /\ requestQueue' = Splice(requestQueue, i)]_vars

-----------------------------------------------------------------------------
(* C7 *)

NewlineAt(s) == {i \in 1..Len(s) : s[i] = NL}

\* the position of the k-th newline of s
KthNewline(s, k) ==
    CHOOSE p \in NewlineAt(s) : Cardinality({q \in NewlineAt(s) : q < p}) = k - 1

\* the newline-terminated lines of s, read off the positions of its newlines
TerminatedLines(s) ==
    [k \in 1..Cardinality(NewlineAt(s)) |->
        SubSeq(s, (IF k = 1 THEN 0 ELSE KthNewline(s, k - 1)) + 1, KthNewline(s, k) - 1)]

\* C7: however the child's stdout character stream is cut into chunks (no cut
\* inside a character), the complete lines dispatched so far are the segments of
\* the whole stream that a newline ends, in order: the unterminated last segment
\* is not among them, and a line cut in two is dispatched once, whole.
C7_LinesDoNotDependOnChunking ==
    (rec.on /\ rec.aligned) => rec.lines = TerminatedLines(ToString(rec.bytes))

\* one line, delivered in two chunks, was dispatched once
C7_Witness ==
    /\ rec.on /\ rec.aligned
    /\ last.op = "stdout" /\ last.chunk = <<"}", NL>>
    /\ rec.bytes = <<JSONOpen(NumberId(1)), "}", NL>>
    /\ rec.lines = << <<JSONOpen(NumberId(1)), "}">> >>

-----------------------------------------------------------------------------
(* C8 *)

\* the step is the stdout handler of child p on chunk c
StdoutStep(p, c) == last'.op = "stdout" /\ last'.proc = p /\ last'.chunk = c

\* the ids of the lines among `lines` that parse as a response
ResponseIdsOf(lines) ==
    {JSONParse(lines[k]).id : k \in {j \in 1..Len(lines) : JSONParse(lines[j]).ok}}

\* C8: a response line whose id is the id of no pending entry removes no entry
\* and calls no continuation: an entry leaves the queue, or a continuation is
\* called, only for an id that a response line of the event carries, and an event
\* none of whose ids is pending leaves requestQueue and the callers as they were.
C8_UnmatchedResponseIsDropped ==
    [][\A p \in procs, c \in StdoutChunks :
          StdoutStep(p, c)
          => LET ids == ResponseIdsOf(AfterPop(Split(buffer[p] \o ToString(c))))
             IN /\ \A i \in 1..Len(requestQueue) :
                       requestQueue[i].id \notin ids
                          => /\ \E j \in 1..Len(requestQueue') :
                                    requestQueue'[j] = requestQueue[i]
                             /\ callers'[requestQueue[i].req]
                                   = callers[requestQueue[i].req]
                /\ ids \cap QueueIds = {}
                      => requestQueue' = requestQueue /\ callers' = callers]_vars

\* a response for id 2 has just been dropped while a request was pending
C8_Witness ==
    /\ last.op = "stdout" /\ last.chunk = ResponseLine(NumberId(2))
    /\ buffer[last.proc] = <<>>
    /\ requestQueue # <<>>
    /\ \A i \in 1..Len(requestQueue) : callers[requestQueue[i].req].outcome = "pending"

-----------------------------------------------------------------------------
(* C9 *)

\* C9: with two requests pending whose ids are the number 1 and the string "1",
\* a response with the number 1 removes and resolves only the entry of the
\* number, a response with the string "1" only that of the string, whichever
\* comes first.
C9_IdsMatchByTypeAndValue ==
    [][\A x \in Ids :
          (/\ last'.op = "stdout" /\ last'.chunk = ResponseLine(x)
           /\ buffer[last'.proc] = <<>>
           /\ Len(requestQueue) = 2
           /\ {requestQueue[1].id, requestQueue[2].id} = {NumberId(1), StringId(1)})
          => \E i \in 1..2 :
                LET r == requestQueue[i].req
                    other == requestQueue[3 - i].req
                IN /\ requestQueue[i].id = x
                   /\ requestQueue' = <<requestQueue[3 - i]>>
                   /\ callers'[r].resolveCalls = callers[r].resolveCalls + 1
                   /\ callers[r].outcome = "pending"
                         => callers'[r].outcome = "resolved" /\ callers'[r].value = x
                   /\ callers'[other] = callers[other]]_vars

\* the request with id "1", submitted second, was resolved by the response "1"
\* while the request with the number 1 stays pending
C9_Witness ==
    /\ Len(callers) = 2
    /\ callers[1].id = NumberId(1) /\ callers[2].id = StringId(1)
    /\ last.op = "stdout" /\ last.chunk = ResponseLine(StringId(1))
    /\ callers[2].outcome = "resolved" /\ callers[2].value = StringId(1)
    /\ callers[1].outcome = "pending" /\ Calls(1) = 0
    /\ requestQueue = <<[id |-> NumberId(1), req |-> 1]>>

-----------------------------------------------------------------------------
(* C10 *)

\* C10: when the write to the child throws, sendToMCP removes the entry it has
\* just pushed and no other, so that the queue is as before the call, and rejects
\* that caller once with the write error.
C10_WriteFailureRemovesOwnEntry ==
    [][(/\ last'.op = "sendToMCP"
        /\ Len(callers') = NewCaller
        /\ callers'[NewCaller].outcome = ErrWrite)
          => /\ requestQueue' = requestQueue
             /\ callers'[NewCaller].rejectCalls = 1]_vars

-----------------------------------------------------------------------------
(* C11 *)

Posts == {i \in 1..Len(http) : http[i].kind = "post"}

\* the step handles a new POST /mcp
PostStep == Len(http') = Len(http) + 1 /\ http'[Len(http')].kind = "post"

\* C11: POST /mcp answers 503 exactly when isReady is false as the request is
\* handled (sendToMCP is then not called); an accepted request that is resolved
\* is answered 200 with the response it was matched with, whose id is the
\* request's; one that fails by timeout, process death or write failure is
\* answered 500 with that error's message; while it is pending nothing is sent;
\* and no caller behind the endpoint is rejected as not ready, so that no 500
\* reports the not-ready condition.
C11_PostStatusByOutcome ==
    /\ [][PostStep
            => /\ http'[Len(http')].status = StatusNotReady <=> ~isReady
               /\ ~isReady => callers' = callers /\ requestQueue' = requestQueue
                                               /\ http'[Len(http')].req = 0
               /\ isReady => /\ Len(callers') = Len(callers) + 1
                              /\ http'[Len(http')].req = Len(callers')]_vars
    /\ [](\A i \in Posts :
             LET h == http[i] IN
             IF h.req = 0 THEN h.status = StatusNotReady
             ELSE LET c == callers[h.req] IN
                  /\ c.outcome = "pending" <=> h.status = 0
                  /\ c.outcome = "resolved"
                        <=> h.status = StatusOK /\ h.body = ResponseBody(c.response)
                  /\ c.outcome = "resolved"
                        => "id" \in DOMAIN h.body /\ h.body.id = c.id
                  /\ c.outcome \in {ErrTimeout, ErrDied, ErrWrite}
                        <=> h.status = StatusFailed /\ h.body.message = c.outcome
                  /\ c.outcome # ErrNotReady)

\* one request was answered 500 for its timeout, another 503
C11_Witness ==
    \E i, j \in Posts :
        /\ http[i].status = StatusFailed /\ http[i].body.message = ErrTimeout
        /\ http[j].status = StatusNotReady

-----------------------------------------------------------------------------
(* C12 *)

Answers == {i \in 1..Len(http) : http[i].status # 0}

\* C12: every answer of the relay's endpoints, on success and on each kind of
\* error, carries a boolean `success` and a `message`.
C12_EveryAnswerHasSuccessAndMessage ==
    \A i \in Answers :
        /\ "success" \in DOMAIN http[i].body
        /\ http[i].body.success \in BOOLEAN
        /\ "message" \in DOMAIN http[i].body

\* C12, amended: every error answer of POST /mcp, of each kind (503 not ready;
\* 500 for a timeout, a process death or a write failure), carries a `message`
\* string, and an `error` string instead of a boolean `success` flag: not
\* ready, the two fixed texts; failure, 'MCP request failed' and the message of
\* the error the caller was rejected with.
C12_ErrorAnswersHaveErrorAndMessage ==
    \A i \in Answers :
        LET h == http[i] IN
        /\ h.status = StatusNotReady
              => /\ {"error", "message"} \subseteq DOMAIN h.body
                 /\ "success" \notin DOMAIN h.body
                 /\ h.body.error = ErrorNotReady /\ h.body.message = MessageNotReady
        /\ h.status = StatusFailed
              => /\ {"error", "message"} \subseteq DOMAIN h.body
                 /\ "success" \notin DOMAIN h.body
                 /\ h.body.error = ErrorFailed
                 /\ h.body.message \in {ErrTimeout, ErrDied, ErrWrite}

\* two error answers of different kinds: a request whose write failed and a
\* request that the child's death failed
C12_Witness ==
    \E i, j \in Answers :
        /\ http[i].status = StatusFailed /\ http[i].body.message = ErrWrite
        /\ http[j].status = StatusFailed /\ http[j].body.message = ErrDied

-----------------------------------------------------------------------------
(* C13 *)

\* the step is the firing of the oldest armed 30 s timer
TimeoutStep == last'.op = "timeout" /\ timeouts # <<>> /\ timeouts' = Tail(timeouts)

\* C13: the timer armed for a request is cancelled once the request has left the
\* queue (matched, or removed otherwise): when it fires it changes nothing then,
\* and whenever it fires the only entry it can remove, and the only caller it
\* can reject, is that of its own request, never the entry of another request,
\* be it a later one with the same id.
C13_TimeoutTouchesOwnEntryOnly ==
    [][TimeoutStep
          => /\ ~InQueue(Expiring) => requestQueue' = requestQueue /\ callers' = callers
             /\ \A i \in 1..Len(requestQueue) :
                    requestQueue[i].req # Expiring
                       => \E j \in 1..Len(requestQueue') : requestQueue'[j] = requestQueue[i]
             /\ \A r \in Callers : r # Expiring => callers'[r] = callers[r]]_vars

-----------------------------------------------------------------------------
(* C14 *)

\* C14: at most one child is live in every reachable state, and a child is
\* spawned only when every child spawned before has been seen to close and
\* requestQueue is empty.
C14_AtMostOneLiveChild ==
    /\ [](Cardinality(procs) <= 1)
    /\ [][~(procs' \subseteq procs)
            => /\ procs = {} /\ requestQueue = <<>>
               /\ Cardinality(procs') = 1
               /\ mcpProcess' \in procs']_vars

\* the replacement is live alone; the close failed one request, and a request
\* submitted before the replacement was spawned or ready was turned away
C14_Witness ==
    /\ last.op = "restart"
    /\ Cardinality(procs) = 1 /\ mcpProcess \in procs
    /\ requestQueue = <<>>
    /\ \E r, t \in Callers : callers[r].outcome = ErrDied
                              /\ callers[t].outcome = ErrNotReady

-----------------------------------------------------------------------------
(* C15 *)

\* the chunk, as the stderr handler reads it, holds one of the two markers
HasMarker(c) ==
    LET msg == Trim(ToString(c))
    IN \E m \in {Marker1, Marker2} :
          \E i \in 1..Len(msg) :
             /\ i + Len(m) - 1 <= Len(msg)
             /\ \A k \in 1..Len(m) : msg[i + k - 1] = m[k]

\* C15: isReady becomes true only in the stderr handler of the live, current
\* child, on a chunk that holds a marker; it is false right after every spawn and
\* while no child is live, so from a close until the replacement's marker the
\* relay is not ready; a POST /mcp handled while it is not ready is turned away
\* (503) without a call of sendToMCP, and nothing is queued.
C15_ReadyOnlyByMarker ==
    /\ [][(isReady' /\ ~isReady)
            => \E c \in StderrChunks :
                  /\ last' = Event("stderr", mcpProcess, c)
                  /\ mcpProcess \in procs
                  /\ HasMarker(c)]_vars
    /\ [][~(procs' \subseteq procs) => ~isReady']_vars
    /\ [][last'.op = "close" => ~isReady']_vars
    /\ [](procs = {} => ~isReady)
    /\ [][(PostStep /\ ~isReady)
            => /\ http'[Len(http')].status = StatusNotReady
               /\ requestQueue' = requestQueue /\ requestQueue = <<>>
               /\ callers' = callers /\ stdinWrites' = stdinWrites]_vars

\* the replacement has just written the marker: the relay is ready again after a
\* close that failed a request and a request that was turned away since
C15_Witness ==
    /\ last = Event("stderr", mcpProcess, Marker1) /\ isReady
    /\ Len(http) = 2
    /\ http[1].status = StatusFailed /\ http[1].body.message = ErrDied
    /\ http[2].status = StatusNotReady

-----------------------------------------------------------------------------
(* C16 *)

\* the line is empty or blank, or JSON.parse throws on it
NoResponse(line) == Trim(line) = <<>> \/ ~JSONParse(line).ok

\* C16: an event whose complete lines are all empty, blank or not JSON leaves
\* requestQueue and every caller as they were; and such a line does not end the
\* processing of the event: a response line that follows it in the same event,
\* the first of the event with its id, still resolves the oldest entry of that
\* id and removes it.
C16_NonResponseLinesAreSkipped ==
    [][\A p \in procs, c \in {last'.chunk} \cap StdoutChunks :
          StdoutStep(p, c)
          => LET lines == AfterPop(Split(buffer[p] \o ToString(c)))
             IN /\ (\A k \in 1..Len(lines) : NoResponse(lines[k]))
                      => requestQueue' = requestQueue /\ callers' = callers
                /\ \A k \in 2..Len(lines) :
                      (/\ NoResponse(lines[k - 1])
                       /\ ~NoResponse(lines[k])
                       /\ \A j \in 1..(k - 1) : NoResponse(lines[j])
                       /\ JSONParse(lines[k]).id \in QueueIds)
                      => \E i \in 1..Len(requestQueue) :
                            LET r == requestQueue[i].req IN
                            /\ requestQueue[i].id = JSONParse(lines[k]).id
                            /\ \A j \in 1..(i - 1) :
                                   requestQueue[j].id # requestQueue[i].id
                            /\ requestQueue' = Splice(requestQueue, i)
                            /\ callers'[r].resolveCalls = callers[r].resolveCalls + 1]_vars

\* a log line and the response "1" came in one chunk: the request "1" is
\* resolved, the request 1 before it in the queue still waits
C16_Witness ==
    /\ last.op = "stdout" /\ last.chunk = <<"x", NL>> \o ResponseLine(StringId(1))
    /\ Len(callers) = 2
    /\ callers[1].id = NumberId(1) /\ callers[1].outcome = "pending"
    /\ callers[2].id = StringId(1) /\ callers[2].outcome = "resolved"
    /\ callers[2].resolveCalls = 1
    /\ requestQueue = <<[id |-> NumberId(1), req |-> 1]>>

-----------------------------------------------------------------------------
(* C17 *)

DistinctIds(q) == \A i, j \in 1..Len(q) : q[i].id = q[j].id => i = j

\* q without its entries of id x, the others in their order
Without(q, x) == LET Other(e) == e.id # x IN SelectSeq(q, Other)

\* C17: with pending requests of pairwise distinct ids, a response resolves the
\* caller whose request bears the response's id, with that response, wherever
\* its entry stands in the queue; no other caller is touched and the other
\* entries stay, in their order of insertion.
C17_PairingByIdKeepsOrder ==
    [][\A p \in procs, x \in ResponseIds :
          (StdoutStep(p, ResponseLine(x)) /\ buffer[p] = <<>> /\ DistinctIds(requestQueue))
          => /\ requestQueue' = Without(requestQueue, x)
             /\ \A i \in 1..Len(requestQueue) :
                    LET r == requestQueue[i].req IN
                    IF requestQueue[i].id = x
                    THEN /\ callers'[r].outcome = "resolved"
                         /\ callers'[r].value = callers[r].id
                         /\ callers'[r].resolveCalls = 1 /\ callers'[r].rejectCalls = 0
                    ELSE callers'[r] = callers[r]]_vars

\* of three requests pending together, the second was answered first: the first
\* and the third wait, in their order
C17_Witness ==
    /\ Len(callers) = MaxPending
    /\ last.op = "stdout" /\ last.chunk = ResponseLine(callers[2].id)
    /\ callers[2].outcome = "resolved" /\ callers[2].value = callers[2].id
    /\ callers[1].outcome = "pending" /\ callers[3].outcome = "pending"
    /\ Len(requestQueue) = 2 /\ DistinctIds(requestQueue)
    /\ requestQueue[1].req = 1 /\ requestQueue[2].req = 3

-----------------------------------------------------------------------------
(* C18 *)

\* the places in q of the entries of id x
Places(q, x) == {i \in 1..Len(q) : q[i].id = x}

\* the first of a non-empty set of places
First(S) == CHOOSE i \in S : \A j \in S : i <= j

\* C18: when two pending entries (or more) bear the id of a response, the
\* response resolves the one inserted first and removes it; the later ones stay
\* queued, their callers untouched, so that the next response of that id
\* resolves the next of them.
C18_OldestOfEqualIdsFirst ==
    [][\A p \in procs, x \in Ids :
          (/\ StdoutStep(p, ResponseLine(x)) /\ buffer[p] = <<>>
           /\ Cardinality(Places(requestQueue, x)) >= 2)
          => LET i == First(Places(requestQueue, x))
                 r == requestQueue[i].req
             IN /\ requestQueue' = SubSeq(requestQueue, 1, i - 1)
                                       \o SubSeq(requestQueue, i + 1, Len(requestQueue))
                /\ callers'[r].resolveCalls = callers[r].resolveCalls + 1
                /\ callers[r].outcome = "pending"
                      => callers'[r].outcome = "resolved" /\ callers'[r].value = x
                /\ \A j \in Places(requestQueue, x) \ {i} :
                       callers'[requestQueue[j].req] = callers[requestQueue[j].req]]_vars

\* two requests with the id 1 were pending together; the first response for 1
\* resolved the older one, the second has just resolved the later one
C18_Witness ==
    /\ Len(callers) = 2
    /\ callers[1].id = NumberId(1) /\ callers[2].id = NumberId(1)
    /\ ~callers[2].fresh
    /\ \A r \in 1..2 : /\ callers[r].outcome = "resolved"
                        /\ callers[r].resolveCalls = 1 /\ callers[r].rejectCalls = 0
    /\ last.op = "stdout" /\ last.chunk = ResponseLine(NumberId(1))
    /\ requestQueue = <<>>

-----------------------------------------------------------------------------
(* C19 *)

\* C19: the 'error' event of the child changes nothing in the relay: no restart
\* is scheduled, isReady, requestQueue, the callers, the timers and the handle
\* stay as they are; a restart timer is armed by the close handler only.
C19_ErrorEventChangesNothing ==
    [][/\ last'.op = "error"
            => UNCHANGED <<listening, mcpProcess, procs, buffer, isReady, requestQueue,
                           timeouts, restartTimers, stdinWrites, callers, rec, http>>
       /\ restartTimers' > restartTimers => last'.op = "close"]_vars

\* an 'error' event has just been handled while the relay is ready with a
\* request pending: it is still ready, the request pending, no restart armed
C19_Witness ==
    /\ last.op = "error" /\ last.proc = mcpProcess
    /\ isReady /\ procs = {mcpProcess} /\ restartTimers = 0
    /\ Len(requestQueue) = 1
    /\ callers[requestQueue[1].req].outcome = "pending"
    /\ Calls(requestQueue[1].req) = 0

-----------------------------------------------------------------------------
(* C20 *)

\* C20: once the stderr stream of the live child, taken as a whole, holds a
\* marker, the relay is ready, however the stream was cut into chunks.
C20_MarkerInStreamMakesReady ==
    (rec.on /\ rec.proc \in procs /\ HasMarker(rec.err)) => isReady

-----------------------------------------------------------------------------
(* C21 *)

\* the accepted requests whose caller is not settled yet
InFlight == {r \in Callers : Accepted(r) /\ ~Settled(r)}

\* C21: the entries of requestQueue are, one to one, the accepted requests
\* whose caller is not settled: every such request has its entry, exactly one,
\* no settled request has one, and so requestQueue.length, the queueSize that
\* GET /health reports, is the number of requests in flight.
C21_QueueIsTheRequestsInFlight ==
    /\ \A r \in Callers : InQueue(r) <=> r \in InFlight
    /\ \A i, j \in 1..Len(requestQueue) :
           requestQueue[i].req = requestQueue[j].req => i = j
    /\ Len(requestQueue) = Cardinality(InFlight)

-----------------------------------------------------------------------------
(* C22 *)

\* C22: while isReady is false requestQueue is empty: an entry is added only
\* while isReady is true, and isReady becomes false only in the close handler,
\* which empties the queue in the same step.
C22_NotReadyMeansEmptyQueue ==
    /\ [](~isReady => requestQueue = <<>>)
    /\ [][Len(requestQueue') > Len(requestQueue) => isReady /\ isReady']_vars
    /\ [][(isReady /\ ~isReady') => last'.op = "close" /\ requestQueue' = <<>>]_vars

\* a close has failed a pending request and a request submitted since, with the
\* replacement spawned and not ready yet, was turned away: nothing is queued
C22_Witness ==
    /\ last.op = "sendToMCP"
    /\ ~isReady /\ mcpProcess \in procs
    /\ Len(callers) = 2
    /\ callers[1].outcome = ErrDied /\ callers[2].outcome = ErrNotReady
    /\ requestQueue = <<>>

-----------------------------------------------------------------------------
(* C23 *)

\* C23: the line buffer belongs to one child.  After every chunk it holds no
\* newline; the close handler dispatches nothing, so the unterminated rest that
\* a dead child left is never dispatched; the buffer of a newly spawned child is
\* empty; and the lines dispatched for a child are the newline-terminated
\* segments of that child's own output, whatever the child before it left.
C23_BufferBelongsToOneChild ==
    /\ [](\A p \in DOMAIN buffer : \A i \in 1..Len(buffer[p]) : buffer[p][i] # NL)
    /\ [][last'.op = "close" => rec' = rec /\ callers' = callers]_vars
    /\ [][~(procs' \subseteq procs)
            => mcpProcess' \in procs' \ procs /\ buffer'[mcpProcess'] = <<>>]_vars
    /\ []((rec.on /\ rec.aligned) => rec.lines = TerminatedLines(ToString(rec.bytes)))

\* a child has closed in the middle of a line: the rest it left was dispatched
\* neither by its last chunk nor by the close handler, and the restart is armed
C23_Witness ==
    /\ last.op = "close" /\ last.proc = mcpProcess
    /\ procs = {} /\ restartTimers = 1
    /\ rec.on /\ rec.bytes = <<"}", NL, JSONOpen(NumberId(1)), "}">>
    /\ buffer[mcpProcess] = <<JSONOpen(NumberId(1)), "}">>
    /\ rec.lines = << <<"}">> >>

====
